---- MODULE Spec2Model ----
(***************************************************************************)
(* Model of mpesa_tool.py: DualMPESAParser (pattern compilation,           *)
(* clean_amount, parse_message) and MPESAMessageProcessor.process_file.    *)
(*                                                                         *)
(* A string is a sequence of symbols.  A symbol is either one character    *)
(* (a digit, a letter, a punctuation mark, the space " ") or one literal   *)
(* phrase of the grammar (its inner blanks included); the text of a string *)
(* is the concatenation of its symbols.  No phrase symbol holds a digit or *)
(* a dot, so the character classes of the patterns are sets of symbols.    *)
(***************************************************************************)
EXTENDS Integers, Sequences, FiniteSets, TLC

(***************************************************************************)
(* Symbols                                                                 *)
(***************************************************************************)
Digits == {"0", "1", "2", "3", "4", "5", "6", "7", "8", "9"}

Letters == {"A", "B", "D", "E", "H", "J", "M", "N", "O", "P", "S"}

Punct == {" ", ",", ".", ":", "/"}

ConfirmWords == {"Confirmed", "confirmed", "CONFIRMED", "Imethibitishwa"}

EnglishWords ==
    {"You have received", "Ksh", "KSH", "from", "paid to", "sent to",
     "for account", "transferred", "to", "M-Shwari account", "You bought",
     "of airtime", "for", "on", "Withdraw", "Your account balance was",
     "M-PESA Account", "hello", "world"}

SwahiliWords ==
    {"imetumwa kwa", "tarehe", "Tarehe", "siku", "saa", "Umepokea", "kutoka",
     "mnamo", "Baki", "yako", "mpya", "ni", "Akaunti ya M-PESA", "Umelipa",
     "kwa", "zimetumwa kwa SAFARICOM DATA BUNDLES",
     "kwa akaunti SAFARICOM DATA BUNDLES", "Umenunua", "ya mjazo",
     "kwa akaunti nambari", "ya", "katika", "M-PESA ni", "Gharama ya",
     "kutuma", "kununua", "matumizi", "kulipa",
     "Kiwango cha Pesa unachoweza kutuma kwa siku ni"}

FailureWords ==
    {"Failed", "You do not have enough money",
     "Insufficient funds in your M-PESA account",
     "You have insufficient funds", "as well as Fuliza M-PESA",
     "in your M-Shwari account", "You have reached your Fuliza M-PESA limit",
     "Your Fuliza M-PESA limit is not available at this time",
     "Hakuna pesa za kutosha", "Imefeli", "imefeli",
     "Umekataa kuidhinisha amali", "Huduma hi haipatikani"}

Alphabet ==
    Digits \cup Letters \cup Punct \cup ConfirmWords \cup EnglishWords
        \cup SwahiliWords \cup FailureWords

\* The symbols whose text holds the letter k in either case ([^k] under
\* re.IGNORECASE excludes them).
HasK ==
    {"Ksh", "KSH", "imetumwa kwa", "siku", "Umepokea", "kutoka", "Baki",
     "yako", "Akaunti ya M-PESA", "kwa", "zimetumwa kwa SAFARICOM DATA BUNDLES",
     "kwa akaunti SAFARICOM DATA BUNDLES", "kwa akaunti nambari", "katika",
     "kutuma", "kununua", "kulipa",
     "Kiwango cha Pesa unachoweza kutuma kwa siku ni",
     "Hakuna pesa za kutosha", "Umekataa kuidhinisha amali",
     "Huduma hi haipatikani"}

\* Case folding of re.IGNORECASE: the symbols equal to a symbol up to letter
\* case.
CaseVariants(tok) ==
    CASE tok \in {"Confirmed", "confirmed", "CONFIRMED"} ->
             {"Confirmed", "confirmed", "CONFIRMED"}
      [] tok \in {"Ksh", "KSH"} -> {"Ksh", "KSH"}
      [] tok \in {"tarehe", "Tarehe"} -> {"tarehe", "Tarehe"}
      [] tok \in {"Imefeli", "imefeli"} -> {"Imefeli", "imefeli"}
      [] OTHER -> {tok}

(***************************************************************************)
(* Regular expressions.  A pattern is a sequence of nodes; a constructor   *)
(* takes the parts of its body in the order of the pattern text.  Matching *)
(* keeps the list of the ways the pattern can be matched so far (a thread  *)
(* is an end position with the groups captured on the way), ordered as the *)
(* backtracking search of Python's re tries them: a greedy quantifier      *)
(* longest first, a lazy one shortest first, an alternation left to right, *)
(* an optional part taken before skipped.  The first thread that reaches   *)
(* the end of the pattern is the match.                                    *)
(***************************************************************************)
Node(t, toks, min, max, lazy, name, body) ==
    [t |-> t, toks |-> toks, min |-> min, max |-> max, lazy |-> lazy,
     name |-> name, body |-> body]

\* The concatenation of a sequence of at most 32 patterns.
At(parts, i) == IF i <= Len(parts) THEN parts[i] ELSE <<>>

Cat4(parts, b) ==
    At(parts, b + 1) \o At(parts, b + 2) \o At(parts, b + 3) \o At(parts, b + 4)

Cat16(parts, b) ==
    Cat4(parts, b) \o Cat4(parts, b + 4) \o Cat4(parts, b + 8)
        \o Cat4(parts, b + 12)

Cat(parts) == Cat16(parts, 0) \o Cat16(parts, 16)

\* max = -1 stands for an unbounded repetition.
Rep(toks, min, max, lazy) == <<Node("rep", toks, min, max, lazy, "", <<>>)>>
OneOf(toks) == <<Node("lit", toks, 1, 1, FALSE, "", <<>>)>>
Lit(tok) == OneOf({tok})
Plus(toks) == Rep(toks, 1, -1, FALSE)
PlusLazy(toks) == Rep(toks, 1, -1, TRUE)
Star(toks) == Rep(toks, 0, -1, FALSE)
StarLazy(toks) == Rep(toks, 0, -1, TRUE)
Grp(name, parts) ==
    <<Node("open", {}, 0, 0, FALSE, name, <<>>)>> \o Cat(parts)
        \o <<Node("close", {}, 0, 0, FALSE, name, <<>>)>>
Opt(parts) == <<Node("opt", {}, 0, 0, FALSE, "", Cat(parts))>>
Alt(alts) ==
    <<Node("alt", {}, 0, 0, FALSE, "",
           <<>> \o [i \in 1..Len(alts) |-> Cat(alts[i])])>>

Sp == Lit(" ")                           \* \s
AmountClass == Digits \cup {",", "."}    \* [\d,.]
NotDigit == Alphabet \ Digits            \* [^0-9]
NotDot == Alphabet \ {"."}               \* [^.]
NotSpace == Alphabet \ {" "}             \* [^\s]
NotK == Alphabet \ HasK                  \* [^k]

NoMatch == [ok |-> FALSE, start |-> 0, end |-> 0, caps |-> <<>>]

Thread(pos, caps) == [pos |-> pos, caps |-> caps]

Member(tok, toks, ic) ==
    IF ic THEN \E x \in CaseVariants(tok) : x \in toks ELSE tok \in toks

\* The length of the longest run of symbols of the class at pos, at most max.
RunLength(toks, max, s, pos, ic) ==
    LET cap == IF max < 0 \/ max > Len(s) - pos THEN Len(s) - pos ELSE max
        others == {j \in 1..cap : ~Member(s[pos + j], toks, ic)}
    IN  IF others = {} THEN cap
        ELSE (CHOOSE j \in others : \A k \in others : j <= k) - 1

\* The lists lo..hi of a sequence of lists, concatenated.
RECURSIVE Flatten(_, _, _)
Flatten(lists, lo, hi) ==
    IF lo > hi THEN <<>>
    ELSE IF lo = hi THEN lists[lo]
    ELSE Flatten(lists, lo, (lo + hi) \div 2)
             \o Flatten(lists, (lo + hi) \div 2 + 1, hi)

FlattenAll(lists) == Flatten(lists, 1, Len(lists))

RECURSIVE Exec(_, _, _, _)

\* The threads that one thread becomes by matching one node, best first.
StepOne(n, th, s, ic) ==
    CASE n.t = "lit" ->
           IF th.pos < Len(s) /\ Member(s[th.pos + 1], n.toks, ic)
           THEN <<Thread(th.pos + 1, th.caps)>>
           ELSE <<>>
      [] n.t = "rep" ->
           LET longest == RunLength(n.toks, n.max, s, th.pos, ic)
           IN  IF longest < n.min THEN <<>>
               ELSE <<>> \o [i \in 1..(longest - n.min + 1) |->
                               Thread(th.pos + (IF n.lazy THEN n.min + i - 1
                                                ELSE longest - i + 1),
                                      th.caps)]
      [] n.t = "open" ->
           <<Thread(th.pos, (n.name :> <<th.pos, th.pos>>) @@ th.caps)>>
      [] n.t = "close" ->
           <<Thread(th.pos, (n.name :> <<th.caps[n.name][1], th.pos>>) @@ th.caps)>>
      [] n.t = "opt" ->
           Exec(n.body, <<th>>, s, ic) \o <<th>>
      [] n.t = "alt" ->
           FlattenAll(<<>> \o [i \in 1..Len(n.body) |->
                                  Exec(n.body[i], <<th>>, s, ic)])

\* The node at index i of a pattern applied to each of the threads in their
\* order.
StepAt(nodes, i, threads, s, ic) ==
    IF Len(threads) = 1 THEN StepOne(nodes[i], threads[1], s, ic)
    ELSE FlattenAll(<<>> \o [k \in 1..Len(threads) |->
                               StepOne(nodes[i], threads[k], s, ic)])

\* The nodes lo..hi of a pattern applied in sequence to the threads.
RECURSIVE ExecRange(_, _, _, _, _, _)
ExecRange(nodes, lo, hi, threads, s, ic) ==
    IF lo > hi \/ Len(threads) = 0 THEN threads
    ELSE IF lo = hi THEN StepAt(nodes, lo, threads, s, ic)
    ELSE ExecRange(nodes, (lo + hi) \div 2 + 1, hi,
                   ExecRange(nodes, lo, (lo + hi) \div 2, threads, s, ic),
                   s, ic)

\* The nodes of a pattern applied in sequence to the threads.
Exec(nodes, threads, s, ic) == ExecRange(nodes, 1, Len(nodes), threads, s, ic)

\* The best of the threads that came through, as a match from an offset.
BestThread(threads, from) ==
    IF Len(threads) = 0 THEN NoMatch
    ELSE [ok |-> TRUE, start |-> from, end |-> threads[1].pos,
          caps |-> threads[1].caps]

\* pattern.match(s, from): the best way to match the pattern at an offset.
MatchHere(pattern, s, from, ic) ==
    BestThread(Exec(pattern, <<Thread(from, <<>>)>>, s, ic), from)

\* The first of the matches that is one.
FirstHit(tries) ==
    IF \A i \in 1..Len(tries) : ~tries[i].ok THEN NoMatch
    ELSE tries[CHOOSE i \in 1..Len(tries) :
                   tries[i].ok /\ \A j \in 1..(i - 1) : ~tries[j].ok]

\* The match at offset 0, else the first one at a later offset.
SearchAfter(first, pattern, s, ic) ==
    IF first.ok THEN first
    ELSE FirstHit(<<>> \o [from \in 1..Len(s) |->
                             MatchHere(pattern, s, from, ic)])

\* pattern.search(s): the match at the leftmost offset that has one.
Search(pattern, s, ic) ==
    SearchAfter(MatchHere(pattern, s, 0, ic), pattern, s, ic)

\* match.group(0)
Group0(m, s) == SubSeq(s, m.start + 1, m.end)

\* match.groupdict() without the groups that are None
GroupDict(m, s) ==
    [k \in DOMAIN m.caps |-> SubSeq(s, m.caps[k][1] + 1, m.caps[k][2])]

(***************************************************************************)
(* _compile_patterns: the grammar tables and the composite matchers        *)
(***************************************************************************)
Languages == <<"ENGLISH", "SWAHILI">>

Amount(name) == Grp(name, <<Plus(AmountClass)>>)          \* (?P<name>[\d,.]+)

DatePattern(name) ==                                      \* \d{1,2}/\d{1,2}/\d{2}
    Grp(name, <<Rep(Digits, 1, 2, FALSE), Lit("/"), Rep(Digits, 1, 2, FALSE),
                Lit("/"), Rep(Digits, 2, 2, FALSE)>>)

TimePattern(name) ==                                      \* \d{1,2}:\d{2}\s*[AP]M
    Grp(name, <<Rep(Digits, 1, 2, FALSE), Lit(":"), Rep(Digits, 2, 2, FALSE),
                Star({" "}), OneOf({"A", "P"}), Lit("M")>>)

BasePattern(language) ==
    IF language = "ENGLISH"
    THEN <<Grp("transaction_id", <<Rep(Letters \cup Digits, 10, 10, FALSE)>>),
           Plus({" "}), OneOf({"Confirmed", "confirmed"}),
           Opt(<<Lit(".")>>), Star({" "})>>
    ELSE <<Grp("transaction_id", <<Rep(Letters \cup Digits, 10, 10, FALSE)>>),
           Plus({" "}), Lit("Imethibitishwa"),
           Opt(<<Lit(".")>>), Star({" "})>>

Entry(name, pattern) == [name |-> name, pattern |-> pattern]

EnglishPatterns ==
    << Entry("RECEIVED",
         <<Lit("You have received"), Sp, Lit("Ksh"), Amount("received_amount"),
           Sp, Lit("from"), Sp, Grp("sender_name", <<PlusLazy(NotDigit)>>),
           Opt(<<Sp, Grp("sender_phone", <<Plus(Digits)>>)>>)>>),
       Entry("PAID",
         <<Lit("Ksh"), Amount("paid_amount"), Sp, Lit("paid to"), Sp,
           Grp("paid_to", <<Plus(NotDot)>>)>>),
       Entry("SENT",
         <<Lit("Ksh"), Amount("sent_amount"), Sp, Lit("sent to"), Sp,
           Grp("recipient", <<PlusLazy(NotDigit)>>),
           Opt(<<Sp, Lit("for account"), Sp,
                 Grp("account_number", <<Plus(NotSpace)>>)>>),
           Opt(<<Sp, Grp("recipient_phone", <<Plus(Digits)>>)>>)>>),
       Entry("MSHWARI",
         <<Lit("Ksh"), Amount("mshwari_amount"), Sp, Lit("transferred"), Sp,
           Grp("mshwari_direction", <<Alt(<< <<Lit("from")>>, <<Lit("to")>> >>)>>),
           Sp, Lit("M-Shwari account")>>),
       Entry("AIRTIME",
         <<Lit("You bought"), Sp, Lit("Ksh"), Amount("airtime_amount"), Sp,
           Lit("of airtime"),
           Opt(<<Sp, Lit("for"), Sp, Grp("airtime_phone", <<Plus(Digits)>>)>>)>>),
       Entry("WITHDRAW",
         <<Opt(<<Lit("on"), Sp, PlusLazy(NotDot)>>), Star({" "}),
           Lit("Withdraw"), Star({" "}), Lit("Ksh"), Amount("withdraw_amount"),
           Sp, Lit("from"), Sp, Grp("agent_details", <<Plus(NotDot)>>)>>),
       Entry("BALANCE_CHECK",
         <<Lit("Your account balance was"), Lit(":"), Sp, Lit("M-PESA Account"),
           Sp, Lit(":"), Sp, Lit("Ksh"), Amount("balance_amount")>>) >>

SwahiliPatterns ==
    << Entry("KUTUMA",
         <<Lit("Ksh"), Amount("kutuma_amount"), Sp, Lit("imetumwa kwa"), Sp,
           Grp("kutuma_recipient", <<PlusLazy(NotDigit)>>), Sp,
           Grp("kutuma_phone", <<Rep(Digits, 10, 10, FALSE)>>), Sp,
           OneOf({"tarehe", "siku"}), Sp, DatePattern("kutuma_date"), Sp,
           Lit("saa"), Sp, TimePattern("kutuma_time")>>),
       Entry("KUPOKEA",
         <<Lit("Umepokea"), Sp, Lit("Ksh"), Amount("kupokea_amount"), Sp,
           Lit("kutoka"), Sp, Grp("kupokea_sender", <<PlusLazy(NotDigit)>>), Sp,
           Grp("kupokea_phone", <<Rep(Digits, 10, 10, FALSE)>>), Sp,
           Lit("mnamo"), Sp, DatePattern("kupokea_date"), Sp,
           Lit("saa"), Sp, TimePattern("kupokea_time")>>),
       Entry("SALIO",
         <<Lit("Baki"), Sp, Lit("yako"), Sp, Lit("ni"), Lit(":"), Sp,
           Lit("Akaunti ya M-PESA"), Sp, Lit(":"), Sp,
           Lit("Ksh"), Amount("salio_amount"), Sp,
           OneOf({"Tarehe", "tarehe"}), Sp, DatePattern("salio_date"), Sp,
           Lit("saa"), Sp, TimePattern("salio_time")>>),
       Entry("KULIPA_TILL",
         <<Lit("Umelipa"), Sp, Lit("Ksh"), Amount("kulipa_amount"), Sp,
           Lit("kwa"), Sp, Grp("kulipa_merchant", <<PlusLazy(NotDigit)>>), Sp,
           DatePattern("kulipa_date"), Sp, TimePattern("kulipa_time")>>),
       Entry("DATA",
         <<Lit("Ksh"), Amount("data_amount"), Sp,
           Lit("zimetumwa kwa SAFARICOM DATA BUNDLES"),
           Opt(<<Sp, Lit("kwa akaunti SAFARICOM DATA BUNDLES")>>), Sp,
           Lit("mnamo"), Sp, DatePattern("data_date"), Sp,
           Lit("saa"), Sp, TimePattern("data_time")>>),
       Entry("MJAZO",
         <<Lit("Umenunua"), Sp, Lit("Ksh"), Amount("mjazo_amount"), Sp,
           Lit("ya mjazo"), Sp, OneOf({"siku", "tarehe"}), Sp,
           DatePattern("mjazo_date"), Sp, Lit("saa"), Sp,
           TimePattern("mjazo_time")>>),
       Entry("PAYBILL",
         <<Lit("Ksh"), Amount("paybill_amount"), Sp, Lit("imetumwa kwa"), Sp,
           Grp("paybill_name", <<PlusLazy(NotK)>>), Sp,
           Lit("kwa akaunti nambari"), Sp,
           Grp("paybill_account", <<Plus(Digits)>>)>>),
       Entry("KUPOKEA_BANK",
         <<Lit("Umepokea"), Sp, Lit("Ksh"), Amount("kupokea_bank_amount"), Sp,
           Lit("kutoka"), Sp, Grp("kupokea_bank_name", <<PlusLazy(NotDigit)>>),
           Sp, Grp("kupokea_bank_account", <<Plus(Digits)>>), Sp,
           Lit("mnamo"), Sp, DatePattern("kupokea_bank_date"), Sp,
           Lit("saa"), Sp, TimePattern("kupokea_bank_time")>>),
       Entry("POCHI_LA_BIASHARA",
         <<Lit("Ksh"), Amount("pochi_amount"), Sp, Lit("imetumwa kwa"), Sp,
           Grp("pochi_recipient", <<PlusLazy(NotDigit)>>), Sp,
           OneOf({"tarehe", "siku"}), Sp, DatePattern("pochi_date"), Sp,
           Lit("saa"), Sp, TimePattern("pochi_time")>>) >>

\* The category tables, each in the order of its dict literal.
transaction_patterns ==
    ("ENGLISH" :> EnglishPatterns) @@ ("SWAHILI" :> SwahiliPatterns)

\* The three side-field patterns, in the order of the dict literal.
additional_patterns ==
    << <<Lit("Baki"), Sp, OneOf({"yako", "mpya"}),
         Alt(<< <<Sp, Lit("ya")>>,
                <<Sp, Lit("mpya"), Sp, Lit("katika")>>,
                <<Sp, Lit("katika")>> >>),
         Sp, Lit("M-PESA ni"), Sp, Lit("Ksh"), Amount("mpesa_balance")>>,
       <<Lit("Gharama ya"), Sp,
         OneOf({"kutuma", "kununua", "matumizi", "kulipa"}), Sp, Lit("ni"), Sp,
         Lit("Ksh"), Amount("transaction_cost")>>,
       <<Lit("Kiwango cha Pesa unachoweza kutuma kwa siku ni"), Sp,
         Amount("daily_limit")>> >>

\* The failure detectors; they are compiled without flags (case-sensitive).
FailedPattern(language) ==
    IF language = "ENGLISH"
    THEN <<Lit("Failed"), Lit("."), Sp,
           Alt(<< <<Lit("You do not have enough money")>>,
                  <<Lit("Insufficient funds in your M-PESA account")>>,
                  <<Lit("You have insufficient funds")>>,
                  <<Lit("Insufficient funds in your M-PESA account"), Sp,
                    Lit("as well as Fuliza M-PESA")>>,
                  <<Lit("You have insufficient funds"), Sp,
                    Lit("in your M-Shwari account")>>,
                  <<Lit("You have reached your Fuliza M-PESA limit")>>,
                  <<Lit("Your Fuliza M-PESA limit is not available at this time")>>
               >>)>>
    ELSE <<Alt(<< <<Lit("Hakuna pesa za kutosha")>>,
                  <<Lit("Imefeli")>>,
                  <<Lit("Umekataa kuidhinisha amali")>>,
                  <<Lit("Huduma hi haipatikani")>> >>)>>

failed_patterns ==
    ("ENGLISH" :> Cat(FailedPattern("ENGLISH")))
        @@ ("SWAHILI" :> Cat(FailedPattern("SWAHILI")))

\* '|'.join(f"(?P<{tx_type}>{pattern})" ...)
transaction_part(language) ==
    <<>> \o [i \in 1..Len(transaction_patterns[language]) |->
                <<Grp(transaction_patterns[language][i].name,
                      transaction_patterns[language][i].pattern)>>]

\* A slip the composite could have: the cost scanner ahead of the balance one.
additional_part_cost_first ==
    <<>> \o [i \in 1..Len(additional_patterns) |->
                Opt(<<StarLazy(Alphabet)>>
                        \o additional_patterns[IF i = 1 THEN 2
                                               ELSE IF i = 2 THEN 1 ELSE i])]

\* ''.join(f"(?:.*?{pattern})?" ...)
additional_part ==
    <<>> \o [i \in 1..Len(additional_patterns) |->
                Opt(<<StarLazy(Alphabet)>> \o additional_patterns[i])]

\* A slip the composite could have: the header is required, not optional.
complete_pattern_header_required(language) ==
    Cat(<<Cat(BasePattern(language)), Alt(transaction_part(language))>>
            \o additional_part)

\* (?:base)?(transaction_part)additional_part
complete_pattern(language) ==
    Cat(<<Opt(BasePattern(language)), Alt(transaction_part(language))>>
            \o additional_part)

\* Compiled with re.IGNORECASE | re.DOTALL.
compiled_patterns ==
    ("ENGLISH" :> complete_pattern("ENGLISH"))
        @@ ("SWAHILI" :> complete_pattern("SWAHILI"))

(***************************************************************************)
(* The inputs: messages assembled from a header, a decline phrase, the     *)
(* body of one category and side fields, each part optional.               *)
(***************************************************************************)
MaxNameLen == 2

RECURSIVE SeqsUpTo(_, _)
SeqsUpTo(S, n) ==
    IF n = 0 THEN {<<>>}
    ELSE LET shorter == SeqsUpTo(S, n - 1)
         IN  shorter \cup {Append(q, x) : q \in shorter, x \in S}

TransactionId == <<"S", "A", "B", "1", "2", "3", "4", "5", "6", "7">>
Phone == <<"0", "7", "1", "2", "3", "4", "5", "6", "7", "8">>
Hundred == <<"1", "0", "0">>

Headers ==
    { <<>>,
      TransactionId \o <<" ", "Confirmed", ".", " ">>,
      TransactionId \o <<" ", "confirmed", " ">>,
      TransactionId \o <<" ", "CONFIRMED", ".", " ">>,
      TransactionId \o <<" ", "Imethibitishwa", ".", " ">> }

DeclinePhrases ==
    { <<>>,
      <<"Failed", ".", " ", "You have insufficient funds", " ">>,
      <<"Failed", ".", " ", "You have insufficient funds", " ",
        "in your M-Shwari account", " ">>,
      <<"Imefeli", " ">>,
      <<"imefeli", " ">> }

BalanceText ==
    <<".", " ", "Baki", " ", "yako", " ", "ya", " ", "M-PESA ni", " ", "Ksh",
      "5", "0">>

CostText ==
    <<".", " ", "Gharama ya", " ", "kutuma", " ", "ni", " ", "Ksh", "7">>

LimitText ==
    <<".", " ", "Kiwango cha Pesa unachoweza kutuma kwa siku ni", " ",
      "5", "0", "0">>

\* The side fields after a category, in several orders.
SideFields ==
    { <<>>,
      CostText \o BalanceText,
      BalanceText \o CostText,
      BalanceText \o CostText \o LimitText,
      LimitText \o BalanceText,
      CostText }

AmountTexts ==
    { Hundred, <<"1", ",", "2", "3", "4", ".", "5", "0">>, <<"5", "0", ".">>,
      <<".">> }

Names ==
    (SeqsUpTo({"J", "O"}, MaxNameLen) \ {<<>>}) \cup {<<"J", "O", " ", "D">>}

Dates == { <<"0", "5", "/", "0", "3", "/", "2", "4">>,
           <<"5", "/", "1", "3", "/", "2", "4">> }

Times == { <<"2", ":", "1", "5", " ", "P", "M">> }

When(word, dates) ==
    { <<" ", word, " ">> \o d \o <<" ", "saa", " ">> \o t :
        d \in dates, t \in Times }

OneDate == { <<"0", "5", "/", "0", "3", "/", "2", "4">> }

EnglishBodies ==
    { <<"You have received", " ", "Ksh">> \o a \o <<" ", "from", " ">> \o n
          \o ph :
        a \in {<<"1", ",", "2", "3", "4", ".", "5", "0">>},
        n \in Names, ph \in {<<>>, <<" ">> \o Phone} }
    \cup { <<"Ksh">> \o a \o <<" ", "paid to", " ", "S", "H", "O", "P", ".">> :
             a \in AmountTexts }
    \cup { <<"Ksh">> \o Hundred \o <<" ", "sent to", " ", "J", "O", "E">> \o acc
               \o <<" ">> \o Phone :
             acc \in {<<>>, <<" ", "for account", " ", "A", "1">>} }
    \cup { <<"Ksh">> \o Hundred \o <<" ", "transferred", " ", dir, " ",
                                     "M-Shwari account">> :
             dir \in {"from", "to"} }
    \cup { <<"You bought", " ", "Ksh", "5", "0", " ", "of airtime">>,
           <<"on", " ", "5", "/", "3", "/", "2", "4", " ", "Withdraw", " ",
             "Ksh">> \o Hundred \o <<" ", "from", " ", "A", "B", ".">>,
           <<"Your account balance was", ":", " ", "M-PESA Account", " ", ":",
             " ", "Ksh">> \o Hundred }

SwahiliBodies ==
    { <<"Ksh">> \o Hundred \o <<" ", "imetumwa kwa", " ", "J", "O", " ", "D",
                                " ">> \o Phone \o w : w \in When("tarehe", Dates) }
    \cup { <<"Umepokea", " ", "Ksh">> \o Hundred \o <<" ", "kutoka", " ", "J",
                                " ">> \o acct \o w :
             acct \in {Phone, <<"1", "2", "3">>}, w \in When("mnamo", OneDate) }
    \cup { <<"Baki", " ", "yako", " ", "ni", ":", " ", "Akaunti ya M-PESA", " ",
             ":", " ", "Ksh">> \o Hundred \o w : w \in When("Tarehe", OneDate) }
    \cup { <<"Umelipa", " ", "Ksh">> \o Hundred
               \o <<" ", "kwa", " ", "S", "H", "O", "P", " ",
                    "5", "/", "3", "/", "2", "4", " ", "2", ":", "1", "5",
                    " ", "P", "M">> }
    \cup { <<"Ksh">> \o Hundred
               \o <<" ", "zimetumwa kwa SAFARICOM DATA BUNDLES">> \o w :
             w \in When("mnamo", OneDate) }
    \cup { <<"Umenunua", " ", "Ksh">> \o Hundred \o <<" ", "ya mjazo">> \o w :
             w \in When("siku", OneDate) }
    \cup { <<"Ksh">> \o Hundred
               \o <<" ", "imetumwa kwa", " ", "S", "H", "O", "P", " ",
                    "kwa akaunti nambari", " ", "1", "2", "3">> }
    \cup { <<"Ksh">> \o Hundred \o <<" ", "imetumwa kwa", " ", "S", "H", "O", "P">>
               \o w : w \in When("siku", OneDate) }

OtherBodies == { <<>>, <<"hello", " ", "world">> }

Bodies == EnglishBodies \cup SwahiliBodies \cup OtherBodies

\* A header and one body.
PlainMessages == { h \o b : h \in Headers, b \in Bodies }

\* A decline phrase in front of nothing, an English body or a Swahili body.
DeclinedBodies ==
    { <<>>,
      <<"Ksh">> \o Hundred \o <<" ", "paid to", " ", "S", "H", "O", "P", ".">>,
      <<"Umenunua", " ", "Ksh">> \o Hundred \o <<" ", "ya mjazo">> }

DeclinedMessages ==
    { h \o d \o b :
        h \in Headers, d \in DeclinePhrases \ {<<>>}, b \in DeclinedBodies }

\* Side fields behind an English body, a Swahili body or no body.
SideFieldBodies ==
    { <<"Ksh">> \o Hundred \o <<" ", "paid to", " ", "S", "H", "O", "P">>,
      <<"Ksh">> \o Hundred
          \o <<" ", "imetumwa kwa", " ", "S", "H", "O", "P", " ",
               "kwa akaunti nambari", " ", "1", "2", "3">>,
      <<"hello", " ", "world">> }

SideFieldMessages ==
    { h \o b \o f :
        h \in { <<>>, TransactionId \o <<" ", "Confirmed", ".", " ">>,
                TransactionId \o <<" ", "Imethibitishwa", ".", " ">> },
        b \in SideFieldBodies, f \in SideFields \ {<<>>} }

Messages == PlainMessages \cup DeclinedMessages \cup SideFieldMessages

(***************************************************************************)
(* String and number helpers                                               *)
(***************************************************************************)
\* s.replace(ch, '')
Remove(s, ch) == SelectSeq(s, LAMBDA x : x /= ch)

RECURSIVE LStrip(_, _)
LStrip(s, chars) ==
    IF s /= <<>> /\ Head(s) \in chars THEN LStrip(Tail(s), chars) ELSE s

RECURSIVE RStrip(_, _)
RStrip(s, chars) ==
    IF s /= <<>> /\ s[Len(s)] \in chars
    THEN RStrip(SubSeq(s, 1, Len(s) - 1), chars) ELSE s

\* s.strip()
Strip(s) == RStrip(LStrip(s, {" "}), {" "})

DigitSeq == <<"0", "1", "2", "3", "4", "5", "6", "7", "8", "9">>
DigitVal(d) == (CHOOSE i \in 1..10 : DigitSeq[i] = d) - 1

RECURSIVE NumVal(_)
NumVal(ds) ==
    IF ds = <<>> THEN 0
    ELSE 10 * NumVal(SubSeq(ds, 1, Len(ds) - 1)) + DigitVal(ds[Len(ds)])

\* A float is the decimal num / 10^scale in lowest terms of ten.
RECURSIVE Decimal(_, _)
Decimal(num, scale) ==
    IF scale > 0 /\ num % 10 = 0 THEN Decimal(num \div 10, scale - 1)
    ELSE [num |-> num, scale |-> scale]

Zero == [num |-> 0, scale |-> 0]

Raised(exc) == [ok |-> FALSE, exc |-> exc, value |-> Zero]
Value(v) == [ok |-> TRUE, exc |-> "", value |-> v]

\* float(s) for a string of the amount characters: digits with at most one
\* decimal point and at least one digit, else ValueError.
Float(s) ==
    LET dots == Len(SelectSeq(s, LAMBDA x : x = "."))
        digits == SelectSeq(s, LAMBDA x : x \in Digits)
        dot == IF dots = 1 THEN CHOOSE i \in 1..Len(s) : s[i] = "." ELSE Len(s) + 1
    IN  IF \/ dots > 1
           \/ digits = <<>>
           \/ \E i \in 1..Len(s) : s[i] \notin Digits \cup {"."}
        THEN Raised("ValueError")
        ELSE Value(Decimal(NumVal(digits), Len(s) + 1 - dot - (IF dots = 1 THEN 1 ELSE 0)))

(***************************************************************************)
(* clean_amount                                                            *)
(***************************************************************************)
clean_amount(amount_str) ==
    IF amount_str = <<>> THEN Value(Zero)
    ELSE Float(RStrip(Strip(Remove(Remove(amount_str, ","), " ")), {"."}))

(***************************************************************************)
(* datetime.strptime(f"{date} {time}", '%d/%m/%y %I:%M %p')                *)
(***************************************************************************)
IndexOf(s, ch) == CHOOSE i \in 1..Len(s) : s[i] = ch /\ \A j \in 1..(i - 1) : s[j] /= ch

IsLeap(y) == (y % 4 = 0 /\ y % 100 /= 0) \/ y % 400 = 0

DaysIn(m, y) ==
    IF m = 2 THEN (IF IsLeap(y) THEN 29 ELSE 28)
    ELSE IF m \in {4, 6, 9, 11} THEN 30 ELSE 31

\* <<>> stands for ValueError, else <<year, month, day, hour, minute>>.
strptime(date, time) ==
    LET s1 == IndexOf(date, "/")
        afterDay == SubSeq(date, s1 + 1, Len(date))
        s2 == IndexOf(afterDay, "/")
        dd == SubSeq(date, 1, s1 - 1)
        mm == SubSeq(afterDay, 1, s2 - 1)
        yy == SubSeq(afterDay, s2 + 1, Len(afterDay))
        c == IndexOf(time, ":")
        hh == SubSeq(time, 1, c - 1)
        mi == SubSeq(time, c + 1, c + 2)
        gap == SubSeq(time, c + 3, Len(time) - 2)
        pm == \E x \in CaseVariants(time[Len(time) - 1]) : x = "P"
        day == NumVal(dd)
        month == NumVal(mm)
        year == IF NumVal(yy) <= 68 THEN 2000 + NumVal(yy) ELSE 1900 + NumVal(yy)
        hour == NumVal(hh)
        minute == NumVal(mi)
    IN  IF /\ day \in 1..31
           /\ month \in 1..12
           /\ hour \in 1..12
           /\ minute \in 0..59
           /\ gap /= <<>>
           /\ day <= DaysIn(month, year)
        THEN <<year, month, day, (hour % 12) + (IF pm THEN 12 ELSE 0), minute>>
        ELSE <<>>

(***************************************************************************)
(* parse_message                                                           *)
(***************************************************************************)
\* The attributes the constructor leaves on the parser: logger and patterns
\* (__init__), compiled_patterns and failed_patterns (_compile_patterns).
InstanceAttributes == {"logger", "patterns", "compiled_patterns", "failed_patterns"}

\* A result dict: the string-valued entries are in fields, the float-valued
\* ones in numbers; "" and <<>> stand for an absent key.
EmptyResult ==
    [status |-> "", error |-> "", reason |-> <<>>, original_message |-> <<>>,
     transaction_type |-> "", fields |-> <<>>, numbers |-> <<>>,
     datetime |-> <<>>]

Returned(r) == [fault |-> "", result |-> r]
Fault(exc) == [fault |-> exc, result |-> EmptyResult]

ErrorResult(text) == [EmptyResult EXCEPT !.error = text]

\* 'ENGLISH' if 'Confirmed' in message or 'confirmed' in message else 'SWAHILI'
Language(message) ==
    IF \E i \in 1..Len(message) : message[i] \in {"Confirmed", "confirmed"}
    THEN "ENGLISH" ELSE "SWAHILI"

\* A slip the decline result could have: the reason is the whole text searched
\* (failed_match.string) instead of the matched part.
FailedResultWholeMessage(failed, message) ==
    [EmptyResult EXCEPT !.status = "FAILED",
                        !.reason = message,
                        !.original_message = message]

\* Lines 242-246: the dict returned for a declined transaction.
FailedResult(failed, message) ==
    [EmptyResult EXCEPT !.status = "FAILED",
                        !.reason = Group0(failed, message),
                        !.original_message = message]

\* f"{tx_type.lower()}_amount"
AmountKey(tx_type) ==
    CASE tx_type = "RECEIVED" -> "received_amount"
      [] tx_type = "PAID" -> "paid_amount"
      [] tx_type = "SENT" -> "sent_amount"
      [] tx_type = "MSHWARI" -> "mshwari_amount"
      [] tx_type = "AIRTIME" -> "airtime_amount"
      [] tx_type = "WITHDRAW" -> "withdraw_amount"
      [] tx_type = "BALANCE_CHECK" -> "balance_check_amount"
      [] tx_type = "KUTUMA" -> "kutuma_amount"
      [] tx_type = "KUPOKEA" -> "kupokea_amount"
      [] tx_type = "SALIO" -> "salio_amount"
      [] tx_type = "KULIPA_TILL" -> "kulipa_till_amount"
      [] tx_type = "DATA" -> "data_amount"
      [] tx_type = "MJAZO" -> "mjazo_amount"
      [] tx_type = "PAYBILL" -> "paybill_amount"
      [] tx_type = "KUPOKEA_BANK" -> "kupokea_bank_amount"
      [] tx_type = "POCHI_LA_BIASHARA" -> "pochi_la_biashara_amount"

Drop(f, keys) == [k \in DOMAIN f \ keys |-> f[k]]

\* The index of the first category, in table order, whose group is in the
\* result and non-empty; 0 when there is none.
RECURSIVE FirstCategory(_, _, _)
FirstCategory(table, fields, i) ==
    IF i > Len(table) THEN 0
    ELSE IF table[i].name \in DOMAIN fields /\ fields[table[i].name] /= <<>>
         THEN i
         ELSE FirstCategory(table, fields, i + 1)

numeric_fields == {"mpesa_balance", "transaction_cost", "daily_limit"}

\* Lines 261-295: the type loop, the numeric fields and the timestamp.
NormalizeGroups(table, groups) ==
    LET stripped == [k \in DOMAIN groups |-> Strip(groups[k])]
        cat == FirstCategory(table, stripped, 1)
        tx_type == IF cat = 0 THEN "" ELSE table[cat].name
        amount_key == IF cat = 0 THEN "" ELSE AmountKey(tx_type)
        hasAmount == amount_key \in DOMAIN stripped
        amount == IF hasAmount THEN clean_amount(stripped[amount_key])
                  ELSE Value(Zero)
        afterType == IF hasAmount THEN Drop(stripped, {amount_key})
                     ELSE stripped
        present == numeric_fields \cap DOMAIN afterType
        cleaned == [k \in present |-> clean_amount(afterType[k])]
        afterNum == Drop(afterType, present)
        both == {"date", "time"} \subseteq DOMAIN afterNum
        stamp == IF both THEN strptime(afterNum["date"], afterNum["time"])
                 ELSE <<>>
        \* result[swa_key] = ...; del result[eng_key] with swa_key = eng_key:
        \* a cleaned side field is deleted again, only the amount stays.
        numbers ==
            [k \in (IF hasAmount THEN {"amount"} ELSE {}) |-> amount.value]
    IN  IF ~amount.ok \/ \E k \in present : ~cleaned[k].ok
        THEN Fault("ValueError")
        ELSE Returned(
               [EmptyResult EXCEPT
                  !.status = "SUCCESS",
                  !.transaction_type = tx_type,
                  !.numbers = numbers,
                  !.datetime = stamp,
                  !.fields = IF stamp /= <<>>
                             THEN Drop(afterNum, {"date", "time"})
                             ELSE afterNum])

\* Lines 253-295: from the match to the returned dict, or the exception.
Normalize(language, matched, message) ==
    IF "transaction_patterns" \notin InstanceAttributes
    THEN Fault("AttributeError")
    ELSE NormalizeGroups(transaction_patterns[language],
                         GroupDict(matched, message))

\* Lines 248-295: the match against the composite pattern and what follows.
AfterMatch(matched, language, text) ==
    IF ~matched.ok
    THEN Returned(ErrorResult("Message format not recognized"))
    ELSE Normalize(language, matched, text)

\* Lines 239-295: the failed result, or the match and what follows.
AfterFailed(failed, language, text) ==
    IF failed.ok
    THEN Returned(FailedResult(failed, text))
    ELSE AfterMatch(Search(compiled_patterns[language], text, TRUE),
                    language, text)

\* Lines 239-295 for a text message of a language.
ParseText(language, text) ==
    AfterFailed(Search(failed_patterns[language], text, FALSE), language, text)

\* parse_message as one call: the returned dict or the exception raised.
parse_message(message) ==
    IF message.type /= "str"
    THEN Returned(ErrorResult("Message must be a string"))
    ELSE ParseText(Language(message.text), message.text)

Str(text) == [type |-> "str", text |-> text]

Inputs ==
    {Str(m) : m \in Messages}
        \cup {[type |-> t, text |-> <<>>] : t \in {"int", "NoneType"}}

(***************************************************************************)
(* State                                                                   *)
(***************************************************************************)
VARIABLES
    input,          \* parse_message: the argument
    pc,             \* parse_message: the position in the function
    lang,           \* parse_message: the local lang
    failed_match,   \* parse_message: the local failed_match
    match,          \* parse_message: the local match
    result,         \* parse_message: the dict handed back
    fault,          \* parse_message: the exception that left the function
    file_exists,    \* process_file: path.exists()
    lines,          \* process_file: the lines of the file
    line_num,       \* process_file: the number of lines read
    results,        \* process_file: the list results
    logged,         \* process_file: the line numbers written to the error log
    bpc,            \* process_file: the position in the function
    amount_str,     \* clean_amount: the argument
    cleaned,        \* clean_amount: the float handed back
    cpc             \* clean_amount: the position in the function

parseVars == <<input, pc, lang, failed_match, match, result, fault>>
batchVars == <<file_exists, lines, line_num, results, logged, bpc>>
cleanVars == <<amount_str, cleaned, cpc>>
vars == <<parseVars, batchVars, cleanVars>>

ParseIdle ==
    /\ input = Str(<<>>)
    /\ pc = "Idle"
    /\ lang = ""
    /\ failed_match = NoMatch
    /\ match = NoMatch
    /\ result = EmptyResult
    /\ fault = ""

BatchIdle ==
    /\ file_exists = TRUE
    /\ lines = <<>>
    /\ line_num = 0
    /\ results = <<>>
    /\ logged = <<>>
    /\ bpc = "Idle"

CleanIdle ==
    /\ amount_str = <<>>
    /\ cleaned = Zero
    /\ cpc = "Idle"

(***************************************************************************)
(* parse_message, step by step                                             *)
(***************************************************************************)
Init ==
    /\ input \in Inputs
    /\ pc = "Start"
    /\ lang = ""
    /\ failed_match = NoMatch
    /\ match = NoMatch
    /\ result = EmptyResult
    /\ fault = ""
    /\ BatchIdle
    /\ CleanIdle

\* if not isinstance(message, str): return {"error": ...}
CheckInput ==
    /\ pc = "Start"
    /\ IF input.type /= "str"
       THEN /\ result' = ErrorResult("Message must be a string")
            /\ pc' = "Done"
       ELSE /\ pc' = "Checked"
            /\ UNCHANGED result
    /\ UNCHANGED <<input, lang, failed_match, match, fault, batchVars, cleanVars>>

DetermineLanguage ==
    /\ pc = "Checked"
    /\ lang' = Language(input.text)
    /\ pc' = "LanguageDetected"
    /\ UNCHANGED <<input, failed_match, match, result, fault, batchVars, cleanVars>>

CheckFailed ==
    /\ pc = "LanguageDetected"
    /\ failed_match' = Search(failed_patterns[lang], input.text, FALSE)
    /\ IF failed_match'.ok
       THEN /\ result' = FailedResult(failed_match', input.text)
            /\ pc' = "Done"
       ELSE /\ pc' = "NotFailed"
            /\ UNCHANGED result
    /\ UNCHANGED <<input, lang, match, fault, batchVars, cleanVars>>

MatchPattern ==
    /\ pc = "NotFailed"
    /\ match' = Search(compiled_patterns[lang], input.text, TRUE)
    /\ IF ~match'.ok
       THEN /\ result' = ErrorResult("Message format not recognized")
            /\ pc' = "Done"
       ELSE /\ pc' = "CategoryMatched"
            /\ UNCHANGED result
    /\ UNCHANGED <<input, lang, failed_match, fault, batchVars, cleanVars>>

NormalizeFields ==
    /\ pc = "CategoryMatched"
    /\ \E out \in {Normalize(lang, match, input.text)} :
           IF out.fault /= ""
           THEN /\ fault' = out.fault
                /\ pc' = "Fault"
                /\ UNCHANGED result
           ELSE /\ result' = out.result
                /\ pc' = "Done"
                /\ UNCHANGED fault
    /\ UNCHANGED <<input, lang, failed_match, match, batchVars, cleanVars>>

Next ==
    \/ CheckInput
    \/ DetermineLanguage
    \/ CheckFailed
    \/ MatchPattern
    \/ NormalizeFields

Spec == Init /\ [][Next]_vars

(***************************************************************************)
(* process_file                                                            *)
(***************************************************************************)
MaxLines == 3

\* MPESAParserError and its subclasses
MPESAParserErrors ==
    {"MPESAParserError", "InvalidMessageError", "NumericConversionError"}

FileLines ==
    { <<>>,
      <<" ", "hello", " ", "world", " ">>,
      <<"Imefeli", " ", "Umenunua", " ", "Ksh">> \o Hundred \o <<" ", "ya mjazo">>,
      TransactionId \o <<" ", "Confirmed", ".", " ", "You have received", " ",
                         "Ksh">> \o Hundred \o <<" ", "from", " ", "J", " ">>
          \o Phone,
      <<" ", "Ksh">> \o Hundred \o <<" ", "imetumwa kwa", " ", "S", "H", "O", "P",
                                    " ", "kwa akaunti nambari", " ", "1", "2">> }

BatchInit ==
    /\ file_exists \in BOOLEAN
    /\ lines \in SeqsUpTo(FileLines, MaxLines)
    /\ line_num = 0
    /\ results = <<>>
    /\ logged = <<>>
    /\ bpc = "Start"
    /\ ParseIdle
    /\ CleanIdle

\* if not path.exists(): raise FileNotFoundError
OpenFile ==
    /\ bpc = "Start"
    /\ bpc' = IF file_exists THEN "Loop" ELSE "Raised"
    /\ UNCHANGED <<file_exists, lines, line_num, results, logged, parseVars, cleanVars>>

\* One iteration of the for loop over the lines.
ProcessLine ==
    /\ bpc = "Loop"
    /\ line_num < Len(lines)
    /\ line_num' = line_num + 1
    /\ \E line \in {Strip(lines[line_num + 1])} :
       \E out \in {parse_message(Str(line))} :
           IF line = <<>>
           THEN UNCHANGED <<results, logged, bpc>>
           ELSE IF out.fault = ""
                THEN /\ results' = Append(results, out.result)
                     /\ UNCHANGED <<logged, bpc>>
                ELSE IF out.fault \in MPESAParserErrors
                     THEN /\ logged' = Append(logged, line_num + 1)
                          /\ UNCHANGED <<results, bpc>>
                     ELSE /\ bpc' = "Raised"
                          /\ UNCHANGED <<results, logged>>
    /\ UNCHANGED <<file_exists, lines, parseVars, cleanVars>>

\* return results
ReturnResults ==
    /\ bpc = "Loop"
    /\ line_num = Len(lines)
    /\ bpc' = "Returned"
    /\ UNCHANGED <<file_exists, lines, line_num, results, logged, parseVars, cleanVars>>

BatchNext == OpenFile \/ ProcessLine \/ ReturnResults

SpecBatch == BatchInit /\ [][BatchNext]_vars

(***************************************************************************)
(* clean_amount as a call of its own                                       *)
(***************************************************************************)
MaxAmountLen == 3

AmountStrings == SeqsUpTo({"0", "1", "5", ",", ".", " "}, MaxAmountLen)

CleanInit ==
    /\ amount_str \in AmountStrings
    /\ cleaned = Zero
    /\ cpc = "Start"
    /\ ParseIdle
    /\ BatchIdle

CleanAmount ==
    /\ cpc = "Start"
    /\ \E out \in {clean_amount(amount_str)} :
           IF out.ok
           THEN /\ cleaned' = out.value
                /\ cpc' = "Returned"
           ELSE /\ cpc' = "Raised"
                /\ UNCHANGED cleaned
    /\ UNCHANGED <<amount_str, parseVars, batchVars>>

CleanNext == CleanAmount

SpecClean == CleanInit /\ [][CleanNext]_vars

(***************************************************************************)
(* Properties                                                              *)
(***************************************************************************)
\* class TransactionType: the closed set of transaction kinds.
TransactionType ==
    {"FULIZA_USED", "FULIZA_REPAYMENT", "RECEIVED", "PAID", "SENT",
     "MSHWARI_WITHDRAWAL", "MSHWARI_DEPOSIT", "AIRTIME", "WITHDRAW",
     "BALANCE_CHECK"}

FormatUnrecognized == "Message format not recognized"

Terminal == pc \in {"Done", "Fault"}

\* The text holds the phrase as a contiguous part.
Contains(text, phrase) ==
    \E i \in 0..(Len(text) - Len(phrase)) :
        SubSeq(text, i + 1, i + Len(phrase)) = phrase

\* The failure phrases of each language, written out.
FailurePhrases(language) ==
    IF language = "ENGLISH"
    THEN { <<"Failed", ".", " ">> \o p :
             p \in { <<"You do not have enough money">>,
                     <<"Insufficient funds in your M-PESA account">>,
                     <<"You have insufficient funds">>,
                     <<"Insufficient funds in your M-PESA account", " ",
                       "as well as Fuliza M-PESA">>,
                     <<"You have insufficient funds", " ",
                       "in your M-Shwari account">>,
                     <<"You have reached your Fuliza M-PESA limit">>,
                     <<"Your Fuliza M-PESA limit is not available at this time">> } }
    ELSE { <<"Hakuna pesa za kutosha">>, <<"Imefeli">>,
           <<"Umekataa kuidhinisha amali">>, <<"Huduma hi haipatikani">> }

HasFailurePhrase(text, language) ==
    \E p \in FailurePhrases(language) : Contains(text, p)

\* The result of a declined transaction: Failed, the reason one of the
\* language's phrases found in the text, and nothing of a category.
IsDeclineResult ==
    /\ pc = "Done"
    /\ fault = ""
    /\ result.status = "FAILED"
    /\ result.error = ""
    /\ result.reason \in FailurePhrases(lang)
    /\ result.reason =
           SubSeq(input.text, failed_match.start + 1, failed_match.end)
    /\ result.original_message = input.text
    /\ result.transaction_type = ""
    /\ result.numbers = <<>>
    /\ result.fields = <<>>
    /\ result.datetime = <<>>
    /\ match = NoMatch

\* C1 (as the code has it): once the failure detector has run, a text message
\* that holds a failure phrase of the language the classifier chose for it,
\* with or without a category shape around it, ends as a Failed result whose
\* reason is the matched phrase, with no kind, amount or extracted field, and
\* the composite matcher has not been run on it.
C1_DeclinePriority ==
    (/\ pc \in {"NotFailed", "CategoryMatched", "Done", "Fault"}
     /\ input.type = "str"
     /\ HasFailurePhrase(input.text, lang))
        => IsDeclineResult

\* C1, reached: a declined English message that carries a payment the
\* composite matcher would have matched.
C1_Witness ==
    /\ pc = "Done"
    /\ result.status = "FAILED"
    /\ lang = "ENGLISH"
    /\ Contains(input.text, <<"paid to">>)
    /\ Search(compiled_patterns[lang], input.text, TRUE).ok

\* C1 (as stated): a failure phrase of either language's detector next to a
\* category shape of either language's matcher gives the Failed result.
C1_EitherLanguage ==
    (/\ pc \in {"NotFailed", "CategoryMatched", "Done", "Fault"}
     /\ input.type = "str"
     /\ \E l \in DOMAIN failed_patterns : HasFailurePhrase(input.text, l)
     /\ \E l \in DOMAIN compiled_patterns :
            Search(compiled_patterns[l], input.text, TRUE).ok)
        => IsDeclineResult

\* C2 (as stated): a call of parse_message never ends in an exception, and
\* when it has ended the result is a Success, a Failed or an error dict.
C2_AlwaysAResult ==
    /\ pc /= "Fault"
    /\ fault = ""
    /\ pc = "Done" => \/ result.status \in {"SUCCESS", "FAILED"}
                      \/ result.error /= ""

\* The token confirmed in any case.
AnyCaseConfirmed == {"Confirmed", "confirmed", "CONFIRMED"}

ConfirmedHeaders ==
    {h \in Headers : \E i \in 1..Len(h) : h[i] \in AnyCaseConfirmed}

ReceivedAmount == <<"1", ",", "2", "3", "4", ".", "5", "0">>

ReceivedMessage(header, name) ==
    header \o <<"You have received", " ", "Ksh">> \o ReceivedAmount
        \o <<" ", "from", " ">> \o name \o <<" ">> \o Phone

\* C3 (as stated): the English received message "ID CONFIRMED... received
\* Ksh<amount> from <name> <phone>" is matched with the whole name and the
\* phone captured, and ends as a Success of kind RECEIVED with the amount
\* 1234.5, the name and the phone.
C3_Received ==
    \A header \in ConfirmedHeaders, name \in Names :
        input = Str(ReceivedMessage(header, name)) =>
            /\ pc = "CategoryMatched" =>
                   /\ {"sender_name", "sender_phone"} \subseteq DOMAIN match.caps
                   /\ GroupDict(match, input.text)["sender_name"] = name
                   /\ GroupDict(match, input.text)["sender_phone"] = Phone
            /\ Terminal =>
                   /\ pc = "Done"
                   /\ result.status = "SUCCESS"
                   /\ result.transaction_type = "RECEIVED"
                   /\ result.numbers = [k \in {"amount"} |-> Decimal(12345, 1)]
                   /\ {"sender_name", "sender_phone"} \subseteq DOMAIN result.fields
                   /\ result.fields["sender_name"] = name
                   /\ result.fields["sender_phone"] = Phone

NonBlank == {i \in 1..Len(lines) : Strip(lines[i]) /= <<>>}

\* The lines parse_message answers with an error dict.
Malformed == {i \in NonBlank : parse_message(Str(Strip(lines[i]))).result.error /= ""}

\* C4 (as stated): process_file on an existing file never stops early, and
\* with exactly one malformed line k among the N non-blank lines it returns
\* N-1 records, none of them an error, and reports line k.
C4_BatchResilience ==
    /\ file_exists => bpc /= "Raised"
    /\ (bpc = "Returned" /\ Cardinality(Malformed) = 1) =>
           /\ Len(results) = Cardinality(NonBlank) - 1
           /\ \A i \in 1..Len(results) : results[i].error = ""
           /\ logged = <<CHOOSE k \in Malformed : TRUE>>

\* C5 (as stated): the language is English exactly when the text holds
\* 'confirmed' in any case, and the detector and the matcher that ran are
\* those of that language.
C5_Classifier ==
    (/\ pc \in {"LanguageDetected", "NotFailed", "CategoryMatched", "Done", "Fault"}
     /\ input.type = "str") =>
        /\ (lang = "ENGLISH") <=>
               (\E i \in 1..Len(input.text) : input.text[i] \in AnyCaseConfirmed)
        /\ failed_match.ok =>
               Group0(failed_match, input.text) \in FailurePhrases(lang)
        /\ match.ok => \E c \in 1..Len(transaction_patterns[lang]) :
                           transaction_patterns[lang][c].name \in DOMAIN match.caps

Separators == {",", ".", " "}

\* C6 (as stated): clean_amount returns a number for every string of digits,
\* commas, spaces and dots, and zero for the empty and the separator-only
\* ones.
C6_CleanAmount ==
    cpc /= "Start" =>
        /\ cpc = "Returned"
        /\ (\A i \in 1..Len(amount_str) : amount_str[i] \in Separators) =>
               cleaned = Zero

DateGroups ==
    {"kutuma_date", "kupokea_date", "salio_date", "kulipa_date", "data_date",
     "mjazo_date", "kupokea_bank_date", "pochi_date"}

TimeGroups ==
    {"kutuma_time", "kupokea_time", "salio_time", "kulipa_time", "data_time",
     "mjazo_time", "kupokea_bank_time", "pochi_time"}

\* C7 (as stated): a message matched with a date and a time ends as a Success
\* whose timestamp is the parsed date and time, or has none when they are not
\* a valid date and time, and the raw date and time are not among its fields.
C7_Timestamp ==
    (/\ Terminal
     /\ match.ok
     /\ DateGroups \cap DOMAIN match.caps /= {}
     /\ TimeGroups \cap DOMAIN match.caps /= {}) =>
        LET groups == GroupDict(match, input.text)
            d == CHOOSE k \in DateGroups : k \in DOMAIN match.caps
            t == CHOOSE k \in TimeGroups : k \in DOMAIN match.caps
        IN  /\ pc = "Done"
            /\ result.status = "SUCCESS"
            /\ result.datetime = strptime(groups[d], groups[t])
            /\ DOMAIN result.fields \cap {d, t, "date", "time"} = {}

\* C8 (as stated): a matched message ends as a Success with one kind, a
\* member of TransactionType, the first category in table order whose group
\* took part in the match.
C8_Kind ==
    (Terminal /\ match.ok) =>
        /\ pc = "Done"
        /\ result.status = "SUCCESS"
        /\ result.transaction_type \in TransactionType
        /\ LET table == transaction_patterns[lang]
               c == FirstCategory(table, GroupDict(match, input.text), 1)
           IN  c /= 0 /\ result.transaction_type = table[c].name

\* The messages the language chosen for them has a category for.
RecognisedMessages ==
    { h \o b : h \in { TransactionId \o <<" ", "Confirmed", ".", " ">>,
                       TransactionId \o <<" ", "confirmed", " ">> },
               b \in EnglishBodies }
    \cup { h \o b : h \in { <<>>,
                            TransactionId \o <<" ", "Imethibitishwa", ".", " ">> },
                    b \in SwahiliBodies }

\* C9 (as the code has it): a call that has ended gave the error "Message
\* format not recognized" exactly when the message is text and neither the
\* failure detector nor the composite matcher of the language chosen for it
\* matched; that error comes as a returned value, "hello world" gets it, and
\* a message with a category of its language does not.
C9_FormatUnrecognized ==
    /\ pc = "Done" =>
           (result.error = FormatUnrecognized <=>
                input.type = "str" /\ ~failed_match.ok /\ ~match.ok)
    /\ result.error = FormatUnrecognized =>
           pc = "Done" /\ fault = "" /\ result.status = ""
    /\ (Terminal /\ input = Str(<<"hello", " ", "world">>)) =>
           result.error = FormatUnrecognized
    /\ (Terminal /\ input.type = "str" /\ input.text \in RecognisedMessages) =>
           result.error /= FormatUnrecognized

\* C9, reached: "hello world" has been answered with the error.
C9_Witness ==
    /\ pc = "Done"
    /\ input = Str(<<"hello", " ", "world">>)
    /\ result.error = FormatUnrecognized
    /\ ~match.ok

\* C9 (as stated): the error is given only to messages that neither
\* language's composite matcher matches.
C9_NeitherLanguage ==
    (pc = "Done" /\ result.error = FormatUnrecognized) =>
        \A l \in DOMAIN compiled_patterns :
            ~Search(compiled_patterns[l], input.text, TRUE).ok

AmountGroups ==
    {"received_amount", "paid_amount", "sent_amount", "mshwari_amount",
     "airtime_amount", "withdraw_amount", "balance_amount", "kutuma_amount",
     "kupokea_amount", "salio_amount", "kulipa_amount", "data_amount",
     "mjazo_amount", "paybill_amount", "kupokea_bank_amount", "pochi_amount"}

\* C10 (as stated): a matched message of any category ends as a Success
\* whose amount is the category's own captured amount, cleaned, and the raw
\* capture is not among its fields.
C10_Amount ==
    (Terminal /\ match.ok) =>
        LET groups == GroupDict(match, input.text)
            own == AmountGroups \cap DOMAIN match.caps
        IN  /\ pc = "Done"
            /\ result.status = "SUCCESS"
            /\ Cardinality(own) = 1
            /\ \A k \in own :
                   /\ clean_amount(Strip(groups[k])).ok
                   /\ result.numbers =
                          [a \in {"amount"} |-> clean_amount(Strip(groups[k])).value]
                   /\ k \notin DOMAIN result.fields

\* The side fields in the order of their scanners.
SideKeys == <<"mpesa_balance", "transaction_cost", "daily_limit">>

\* The composite matcher has run on the message.
MatchRan ==
    /\ input.type = "str"
    /\ \/ pc \in {"CategoryMatched", "Fault"}
       \/ pc = "Done" /\ ~failed_match.ok

\* The phrase of side field i matched at an offset of the text.
ScannerAt(i, text, pos) == MatchHere(Cat(additional_patterns[i]), text, pos, TRUE)

\* The offsets from an offset on where the phrase of side field i matches.
ScannerHits(i, text, from) ==
    {pos \in from..Len(text) : ScannerAt(i, text, pos).ok}

\* One scan for the side fields i, i+1, ... from an offset on: a field is
\* captured at the first place its phrase matches, and the next field is
\* looked for from the end of that capture, or from the same offset when the
\* field is not there.
RECURSIVE SequentialScan(_, _, _)
SequentialScan(i, text, from) ==
    IF i > Len(SideKeys) THEN <<>>
    ELSE IF ScannerHits(i, text, from) = {}
         THEN SequentialScan(i + 1, text, from)
         ELSE LET at == CHOOSE pos \in ScannerHits(i, text, from) :
                            \A other \in ScannerHits(i, text, from) : pos <= other
              IN  (SideKeys[i] :> ScannerAt(i, text, at).caps[SideKeys[i]])
                      @@ SequentialScan(i + 1, text, ScannerAt(i, text, at).end)

\* The end of the category part of the match.
CategoryEnd ==
    match.caps[transaction_patterns[lang][
        CHOOSE c \in 1..Len(transaction_patterns[lang]) :
            transaction_patterns[lang][c].name \in DOMAIN match.caps].name][2]

\* The composite pattern without its side-field scanners.
CategoryPattern(language) ==
    Cat(<<Opt(BasePattern(language)), Alt(transaction_part(language))>>)

SideCaptures == [k \in {SideKeys[i] : i \in 1..Len(SideKeys)} \cap DOMAIN match.caps
                    |-> match.caps[k]]

\* C11: in a match of the composite matcher the side fields are those of one
\* scan from the end of the category part in the order balance, cost, daily
\* limit, each scanner starting where the last captured one ended; so the
\* captured fields lie after the category part and after one another in that
\* order, a cost or daily-limit phrase found only ahead of the captured
\* balance is not captured, and the message matches, with the same category
\* part, exactly when it matches without the scanners.
C11_SideFieldScan ==
    MatchRan =>
        /\ match.ok =>
               /\ SideCaptures = SequentialScan(1, input.text, CategoryEnd)
               /\ \A k \in DOMAIN SideCaptures : CategoryEnd <= SideCaptures[k][1]
               /\ \A i, j \in 1..Len(SideKeys) :
                      (/\ i < j
                       /\ {SideKeys[i], SideKeys[j]} \subseteq DOMAIN SideCaptures)
                          => SideCaptures[SideKeys[i]][2] <= SideCaptures[SideKeys[j]][1]
               /\ \A j \in 2..Len(SideKeys) :
                      (/\ "mpesa_balance" \in DOMAIN SideCaptures
                       /\ \A pos \in ScannerHits(j, input.text, CategoryEnd) :
                              pos < SideCaptures["mpesa_balance"][1])
                          => SideKeys[j] \notin DOMAIN SideCaptures
        /\ \E bare \in {Search(CategoryPattern(lang), input.text, TRUE)} :
               /\ match.ok <=> bare.ok
               /\ match.ok =>
                      /\ match.start = bare.start
                      /\ \A k \in DOMAIN bare.caps : match.caps[k] = bare.caps[k]
                      /\ DOMAIN match.caps \ DOMAIN bare.caps
                             = DOMAIN SideCaptures

\* C11, reached: a match that captured the balance and not the cost, whose
\* phrase stands between the category part and the balance phrase.
C11_Witness ==
    /\ pc = "CategoryMatched"
    /\ match.ok
    /\ "mpesa_balance" \in DOMAIN match.caps
    /\ "transaction_cost" \notin DOMAIN match.caps
    /\ \E pos \in CategoryEnd..match.caps["mpesa_balance"][1] :
           ScannerAt(2, input.text, pos).ok

====
